---- MODULE Spec2Model ----
(***************************************************************************)
(* plot_surf4 of workflow/scripts/brain4views.py: the surface-mesh         *)
(* projection and compositing renderer, as a state machine over the        *)
(* program locations of one call; and the conversion loop of               *)
(* workflow/scripts/working/hippunfold_to_slicer.py over the files of a    *)
(* derivatives directory.                                                  *)
(*                                                                         *)
(* Numbers.  numpy floats are modelled by exact rationals <<n, d>> in      *)
(* lowest terms with d > 0, extended by the IEEE specials nan = <<0,0>>,   *)
(* +inf = <<1,0>> and -inf = <<-1,0>>.  Python's None is <<0,-1>>.         *)
(***************************************************************************)
EXTENDS Integers, Sequences, FiniteSets, TLC

VARIABLES
    pc,               \* location in plot_surf4
    cfg,              \* the arguments of the call
    m,                \* index of the hemisphere being processed
    vmin, vmax,       \* the locals vmin, vmax (arguments, reassigned)
    label_colors,     \* the local label_colors (argument, reassigned)
    vertices, faces,  \* the normalised mesh of hemisphere m
    intensity,        \* per-face shading
    mask,             \* per-vertex cortex mask
    sulc_faces,       \* per-face sulcal value
    label_mask_faces, \* per label, the per-face reduced label mask
    overlay,          \* per-vertex overlay data
    overlay_faces,    \* per-face overlay value
    kept_indices, masked_indices,
    face_colors,      \* the RGBA buffer
    view,             \* index of the view being drawn
    collection,       \* the PolyCollection built last
    fig,              \* per tile of the 2x2 grid, the collections added
    output_file,      \* whether the image file exists
    files_read,       \* the data files loaded so far
    raised,           \* the exception that ended the call, if any
    spc,              \* hippunfold_to_slicer: location in the script
    item,             \* index of the conversion the loops have reached
    files,            \* the output files of the derivatives directory
    files0,           \* files when the running script was started
    loaded,           \* the input files loaded by the running script
    written,          \* the output files written by the running script
    run               \* how many times the script has been started

vars == <<pc, cfg, m, vmin, vmax, label_colors, vertices, faces, intensity,
          mask, sulc_faces, label_mask_faces, overlay, overlay_faces,
          kept_indices, masked_indices, face_colors, view, collection, fig,
          output_file, files_read, raised,
          spc, item, files, files0, loaded, written, run>>

\* the variables of hippunfold_to_slicer.py
svars == <<spc, item, files, files0, loaded, written, run>>

\* the variables of plot_surf4
pvars == <<pc, cfg, m, vmin, vmax, label_colors, vertices, faces, intensity,
           mask, sulc_faces, label_mask_faces, overlay, overlay_faces,
           kept_indices, masked_indices, face_colors, view, collection, fig,
           output_file, files_read, raised>>

(***************************************************************************)
(* Bounds of the input space.                                              *)
(***************************************************************************)
\* overlay vertex values range over -1 .. MaxOv and nan
MaxOv == 2
\* thresholds range over None and 0 .. MaxThreshold
MaxThreshold == 2
\* a colormap passed as cmap has CmapN entries
CmapN == 3
\* at most MaxLabels [lh, rh] label pairs are passed as labels
MaxLabels == 2

(***************************************************************************)
(* Float arithmetic                                                        *)
(***************************************************************************)
None == <<0, -1>>
nan == <<0, 0>>
PInf == <<1, 0>>
NInf == <<-1, 0>>

Abs(x) == IF x < 0 THEN -x ELSE x

Sign(x) == IF x < 0 THEN -1 ELSE IF x > 0 THEN 1 ELSE 0

\* Euclid's algorithm
gcd[a \in Nat, b \in Nat] == IF b = 0 THEN a ELSE gcd[b, a % b]

GCD(a, b) == gcd[a, b]

\* the float n/d (d = 0 gives nan or a signed infinity)
Q(n, d) ==
    IF d = 0 THEN <<Sign(n), 0>>
    ELSE LET g == GCD(Abs(n), Abs(d))
             s == IF d < 0 THEN -1 ELSE 1
         IN  <<(s * n) \div g, (s * d) \div g>>

I(n) == <<n, 1>>

IsNan(x) == x = nan
IsInf(x) == x[2] = 0 /\ x[1] # 0
IsFinite(x) == x[2] > 0

RAdd(x, y) ==
    IF IsNan(x) \/ IsNan(y) THEN nan
    ELSE IF IsInf(x) /\ IsInf(y) THEN (IF x = y THEN x ELSE nan)
    ELSE IF IsInf(x) THEN x
    ELSE IF IsInf(y) THEN y
    ELSE Q(x[1] * y[2] + y[1] * x[2], x[2] * y[2])

RNeg(x) == <<-x[1], x[2]>>

RSub(x, y) == RAdd(x, RNeg(y))

RMul(x, y) == Q(x[1] * y[1], x[2] * y[2])

RDiv(x, y) ==
    IF IsNan(x) \/ IsNan(y) THEN nan
    ELSE IF IsInf(y) THEN (IF IsInf(x) THEN nan ELSE I(0))
    ELSE IF y[1] = 0 THEN <<Sign(x[1]), 0>>
    ELSE RMul(x, Q(y[2], y[1]))

RAbs(x) == <<Abs(x[1]), x[2]>>

\* comparisons are false as soon as one side is nan
RLt(x, y) ==
    /\ ~IsNan(x)
    /\ ~IsNan(y)
    /\ IF IsInf(x) \/ IsInf(y)
       THEN (x = NInf /\ y # NInf) \/ (y = PInf /\ x # PInf)
       ELSE x[1] * y[2] < y[1] * x[2]

RLe(x, y) == ~IsNan(x) /\ ~IsNan(y) /\ (x = y \/ RLt(x, y))

RGe(x, y) == RLe(y, x)

RGt(x, y) == RLt(y, x)

\* np.sqrt of a float whose numerator and denominator are perfect squares
\* (all vector lengths of the meshes of MeshFiles are)
ISqrt(n) == CHOOSE k \in 0..n : k * k = n

RSqrt(x) == Q(ISqrt(x[1]), ISqrt(x[2]))

\* the sequence s with every element evaluated (a function constructor is
\* evaluated on each access otherwise)
Eager(s) == <<>> \o s

\* F(v) with v evaluated once
Let(v, F(_)) == CHOOSE r \in {F(z) : z \in {v}} : TRUE


\* sorted copy of a sequence of non-nan floats
RSort(s) == SortSeq(s, LAMBDA a, b : RLt(a, b))

Range(s) == {s[k] : k \in DOMAIN s}

\* np.min / np.max: nan as soon as one element is nan
RMin(s) ==
    IF nan \in Range(s) THEN nan
    ELSE CHOOSE x \in Range(s) : \A y \in Range(s) : RLe(x, y)

RMax(s) ==
    IF nan \in Range(s) THEN nan
    ELSE CHOOSE x \in Range(s) : \A y \in Range(s) : RLe(y, x)

\* np.nanmin / np.nanmax: nan elements are skipped; all-nan gives nan
NanMin(s) ==
    LET r == Range(s) \ {nan}
    IN  IF r = {} THEN nan ELSE CHOOSE x \in r : \A y \in r : RLe(x, y)

NanMax(s) ==
    LET r == Range(s) \ {nan}
    IN  IF r = {} THEN nan ELSE CHOOSE x \in r : \A y \in r : RLe(y, x)

\* np.mean(a, axis=1) of one row of three
Mean3(t) == RDiv(RAdd(RAdd(t[1], t[2]), t[3]), I(3))

\* np.median(a, axis=1) of one row of three: nan if any is nan
Median3(t) == IF nan \in Range(t) THEN nan ELSE RSort(Eager(t))[2]

\* np.percentile(a, q) (linear interpolation) of non-nan floats
Percentile(s, q) ==
    LET srt == RSort(Eager(s))
        n == Len(s)
        pos == q * (n - 1)
        lo == pos \div 100
        frac == Q(pos % 100, 100)
    IN  IF lo + 1 >= n THEN srt[n]
        ELSE RAdd(srt[lo + 1], RMul(frac, RSub(srt[lo + 2], srt[lo + 1])))

(***************************************************************************)
(* Meshes: surface.load_surf_mesh returns one of these (vertices, faces).  *)
(* Faces hold 0-based vertex indices, as in the code.                      *)
(***************************************************************************)
\* a flat planar 2-triangle mesh: both normals are (0, 0, 1)
FlatMesh ==
    [vertices |-> << <<0, 0, 0>>, <<4, 0, 0>>, <<0, 4, 0>>, <<4, 4, 0>> >>,
     faces |-> << <<0, 1, 2>>, <<1, 3, 2>> >>]

\* a folded mesh: one face up (normal z = 1), one face tilted away from the
\* light (normal z = -1/3) and one degenerate face (two equal vertices)
FoldedMesh ==
    [vertices |-> << <<0, 0, 0>>, <<4, 0, 0>>, <<0, 4, 0>>, <<4, 1, 2>> >>,
     faces |-> << <<0, 1, 2>>, <<1, 2, 3>>, <<3, 3, 0>> >>]

MeshFiles == {FlatMesh, FoldedMesh}

\* number of vertices of every mesh of MeshFiles
NumVertices == Len(FlatMesh.vertices)

Col(vs, a) == Eager([k \in DOMAIN vs |-> vs[k][a]])

Seq3Max(t) == IF RGe(t[1], t[2]) /\ RGe(t[1], t[3]) THEN t[1]
              ELSE IF RGe(t[2], t[3]) THEN t[2] ELSE t[3]

\* vertices = (vertices - (vertices.max(0) + vertices.min(0)) / 2) / vert_range
NormalizeVertices(vs) ==
    LET mx == Eager([a \in 1..3 |-> RMax(Col(vs, a))])
        mn == Eager([a \in 1..3 |-> RMin(Col(vs, a))])
        vert_range == Seq3Max(Eager([a \in 1..3 |-> RSub(mx[a], mn[a])]))
    IN  Eager([k \in DOMAIN vs |->
            Eager([a \in 1..3 |->
                RDiv(RSub(vs[k][a], RDiv(RAdd(mx[a], mn[a]), I(2))),
                     vert_range)])])

VSub(u, v) == Eager([a \in 1..3 |-> RSub(u[a], v[a])])

Cross(u, v) ==
    << RSub(RMul(u[2], v[3]), RMul(u[3], v[2])),
       RSub(RMul(u[3], v[1]), RMul(u[1], v[3])),
       RSub(RMul(u[1], v[2]), RMul(u[2], v[1])) >>

\* arr /= lens + EPSILON: EPSILON = 1e-12 changes a non-zero length below
\* the precision modelled here and turns 0/0 into 0/EPSILON = 0
normalize_v3(n) ==
    LET lens == RSqrt(RAdd(RMul(n[1], n[1]),
                           RAdd(RMul(n[2], n[2]), RMul(n[3], n[3]))))
    IN  IF lens = I(0) THEN << I(0), I(0), I(0) >>
        ELSE Eager([a \in 1..3 |-> RDiv(n[a], lens)])

\* vertices[faces]: the three vertices of face f
Tri(vs, f) == Eager([j \in 1..3 |-> vs[f[j] + 1]])

normal_vectors(vs, fs) ==
    Eager([k \in DOMAIN fs |->
        LET tris == Tri(vs, fs[k])
        IN  normalize_v3(Cross(VSub(tris[2], tris[1]), VSub(tris[3], tris[1])))])

light == << I(0), I(0), I(1) >>

Dot(u, v) == RAdd(RMul(u[1], v[1]), RAdd(RMul(u[2], v[2]), RMul(u[3], v[3])))

shading == Q(7, 10)

\* intensity = np.dot(face_normals, light)
RawIntensity(vs, fs) ==
    LET face_normals == normal_vectors(vs, fs)
    IN  Eager([k \in DOMAIN fs |-> Dot(face_normals[k], light)])

\* Shade flooring the intensity at 0 instead of shifting it by its minimum
ShadeFloored(raw) ==
    LET denom == Percentile(raw, 80)
    IN  Eager([k \in DOMAIN raw |->
            LET floored == IF RLt(raw[k], I(0)) THEN I(0) ELSE raw[k]
                x == RAdd(RSub(I(1), shading),
                          RDiv(RMul(shading, floored), denom))
            IN  IF RGt(x, I(1)) THEN I(1) ELSE x])

\* denom = np.percentile(intensity, 80) - np.min(intensity)
\* intensity = (1 - shading) + shading * (intensity - np.min(intensity)) / denom
\* intensity[intensity > 1] = 1
Shade(raw) ==
    LET lowest == RMin(raw)
        denom == RSub(Percentile(raw, 80), lowest)
    IN  Eager([k \in DOMAIN raw |->
            LET x == RAdd(RSub(I(1), shading),
                          RDiv(RMul(shading, RSub(raw[k], lowest)), denom))
            IN  IF RGt(x, I(1)) THEN I(1) ELSE x])

(***************************************************************************)
(* Camera: perspective @ translate @ yrotate @ xrotate                     *)
(***************************************************************************)
MatMul(A, B) ==
    Eager([r \in 1..4 |-> Eager([c \in 1..4 |->
        RAdd(RAdd(RMul(A[r][1], B[1][c]), RMul(A[r][2], B[2][c])),
             RAdd(RMul(A[r][3], B[3][c]), RMul(A[r][4], B[4][c])))])])

\* M = zeros((4, 4)) with the seven entries the code assigns (M[2, 1], not
\* M[1, 2], receives (top + bottom) / (top - bottom))
frustum(left, right, bottom, top, znear, zfar) ==
    << << RDiv(RMul(I(2), znear), RSub(right, left)), I(0),
          RDiv(RAdd(right, left), RSub(right, left)), I(0) >>,
       << I(0), RDiv(RMul(I(2), znear), RSub(top, bottom)), I(0), I(0) >>,
       << I(0), RDiv(RAdd(top, bottom), RSub(top, bottom)),
          RNeg(RDiv(RAdd(zfar, znear), RSub(zfar, znear))),
          RDiv(RMul(I(-2), RMul(znear, zfar)), RSub(zfar, znear)) >>,
       << I(0), I(0), I(-1), I(0) >> >>

\* np.tan(0.5 * np.radians(25)) = 0.22169..., to four decimals
TanHalfFovy == Q(2217, 10000)

\* perspective(fovy = 25, aspect, znear, zfar)
perspective(aspect, znear, zfar) ==
    LET h == RMul(TanHalfFovy, znear)
        w == RMul(h, aspect)
    IN  frustum(RNeg(w), w, RNeg(h), h, znear, zfar)

translate(x, y, z) ==
    << << I(1), I(0), I(0), x >>, << I(0), I(1), I(0), y >>,
       << I(0), I(0), I(1), z >>, << I(0), I(0), I(0), I(1) >> >>

\* cos and sin of theta degrees, theta a multiple of 90 (the only angles
\* plot_surf4 passes)
Cos(theta) == IF theta % 360 = 0 THEN I(1)
              ELSE IF theta % 360 = 180 THEN I(-1) ELSE I(0)

Sin(theta) == IF theta % 360 = 90 THEN I(1)
              ELSE IF theta % 360 = 270 THEN I(-1) ELSE I(0)

xrotate(theta) ==
    LET c == Cos(theta)
        s == Sin(theta)
    IN  << << I(1), I(0), I(0), I(0) >>, << I(0), c, RNeg(s), I(0) >>,
           << I(0), s, c, I(0) >>, << I(0), I(0), I(0), I(1) >> >>

yrotate(theta) ==
    LET c == Cos(theta)
        s == Sin(theta)
    IN  << << c, I(0), s, I(0) >>, << I(0), I(1), I(0), I(0) >>,
           << RNeg(s), I(0), c, I(0) >>, << I(0), I(0), I(0), I(1) >> >>

\* rotations_both = [[90, 270], [270, 90]]
rotations_both == << <<90, 270>>, <<270, 90>> >>

\* MVP of lines 305-310
ViewMatrix(angle) ==
    MatMul(MatMul(MatMul(perspective(I(1), I(1), I(100)),
                         translate(I(0), I(0), I(-3))),
                  yrotate(angle)),
           xrotate(270))

\* the matrices of the angles of rotations_both, computed once
MVPs == (90 :> ViewMatrix(90)) @@ (270 :> ViewMatrix(270))

MVP(angle) == MVPs[angle]

\* row r of MVP times the homogeneous vertex (v, 1)
Clip(M, v, r) ==
    RAdd(RAdd(RMul(v[1], M[r][1]), RMul(v[2], M[r][2])),
         RAdd(RMul(v[3], M[r][3]), M[r][4]))

\* component 2 (depth) of one row of V = np.c_[vertices, ones] @ MVP.T
\* after V /= V[:, 3]; components 0 and 1 (the screen position) are not
\* modelled
ProjectZ(v, M) == RDiv(Clip(M, v, 3), Clip(M, v, 4))

\* DepthKeys without the negation
DepthKeysNotNegated(vs, fs, angle) ==
    Let(MVP(angle),
        LAMBDA M :
            Let(Eager([k \in DOMAIN vs |-> ProjectZ(vs[k], M)]),
                LAMBDA Vz :
                    Eager([k \in DOMAIN fs |->
                        RDiv(RAdd(RAdd(Vz[fs[k][1] + 1], Vz[fs[k][2] + 1]),
                                  Vz[fs[k][3] + 1]),
                             I(3))])))

\* Z = -V[faces][:, :, 2].mean(axis=1)
DepthKeys(vs, fs, angle) ==
    Let(MVP(angle),
        LAMBDA M :
            Let(Eager([k \in DOMAIN vs |-> ProjectZ(vs[k], M)]),
                LAMBDA Vz :
                    Eager([k \in DOMAIN fs |->
                        RNeg(RDiv(RAdd(RAdd(Vz[fs[k][1] + 1], Vz[fs[k][2] + 1]),
                                       Vz[fs[k][3] + 1]),
                                  I(3)))])))

\* np.argsort(Z): 0-based face indices by ascending key (equal keys keep
\* their order: arrays this short are insertion-sorted)
ArgSort(Z) ==
    Let(Eager(Z),
        LAMBDA key :
            Let(SortSeq([k \in DOMAIN key |-> k],
                        LAMBDA a, b : RLt(key[a], key[b])
                                      \/ (key[a] = key[b] /\ a < b)),
                LAMBDA idx : Eager([k \in DOMAIN key |-> idx[k] - 1])))

(***************************************************************************)
(* Colormaps.  A colour is <<R, G, B, A>>.                                 *)
(***************************************************************************)
\* matplotlib Colormap.__call__ on a float: nan gives the bad colour
\* (0, 0, 0, 0), x < 0 the first entry, x >= 1 the last, else int(x * N)
LutIndex(x, N) ==
    IF RLt(x, I(0)) THEN 0
    ELSE IF RGe(x, I(1)) THEN N - 1
    ELSE (x[1] * N) \div x[2]

BadColor == << I(0), I(0), I(0), I(0) >>

\* Entry k (0-based) of the colormap passed as cmap: a ListedColormap of
\* CmapN pairwise different opaque colours
CmapLut(k) == << Q(k + 1, CmapN + 1), Q(CmapN - k, CmapN + 1), Q(1, 2), I(1) >>

cmap(x) == IF IsNan(x) THEN BadColor ELSE CmapLut(LutIndex(x, CmapN))

\* greys = plt.get_cmap("Greys", 512): the ColorBrewer greys 189, 150, 115
\* (of 255) at 3/8, 1/2, 5/8, linear in between
greys(x) ==
    LET g == IF RLe(x, Q(1, 2))
             THEN RSub(I(189), RMul(I(39 * 8), RSub(x, Q(3, 8))))
             ELSE RSub(I(150), RMul(I(35 * 8), RSub(x, Q(1, 2))))
        c == RDiv(g, I(255))
    IN  << c, c, c, I(1) >>

\* number of entries of greys_narrow
GreysNarrowN == 256

\* greys_narrow = ListedColormap(greys(np.linspace(0.42, 0.58, 256)))
greys_narrow(x) ==
    IF IsNan(x) THEN BadColor
    ELSE LET k == LutIndex(x, GreysNarrowN)
         IN  greys(RAdd(Q(42, 100), RMul(Q(16, 100), Q(k, GreysNarrowN - 1))))

\* elementwise product of two RGBA rows
ColorMul(c, d) == << RMul(c[1], d[1]), RMul(c[2], d[2]), RMul(c[3], d[3]),
                     RMul(c[4], d[4]) >>

\* color of the i-th label (1-based) as passed in label_colors, as RGBA
\* (to_rgba_array gives a named colour alpha 1)
LabelColorSpec(i) == << Q(1, i), Q(1, 2), Q(i - 1, i), I(1) >>

(***************************************************************************)
(* Input files and arguments                                               *)
(***************************************************************************)
VertexIds == 0 .. NumVertices - 1

\* a .label file lists vertex indices
CortexFiles == {{0, 1}, {2, 3}}

LabelFiles == {{0, 1}, {1, 2, 3}}

\* sulcal maps: -1 on the first k vertices, 1 on the others; the maps of
\* NumVertices - 1 values do not fit the mesh
SulcFiles ==
    {[v \in 1..n |-> IF v <= k THEN I(-1) ELSE I(1)] :
        n \in {NumVertices - 1, NumVertices}, k \in {0, 2}}

OvValues == {I(-MaxOv), nan} \cup {I(k) : k \in 1 .. MaxOv - 1}

\* overlays: value a on vertices 0, 1 and b on the others; one overlay a
\* vertex short and one with two dimensions
OverlayFiles ==
    {[ndim |-> 1, data |-> <<a, a, b, b>>] : a \in OvValues, b \in OvValues}
    \cup {[ndim |-> 1, data |-> <<I(1), I(1), I(1)>>],
          [ndim |-> 2, data |-> <<I(1), I(1), I(1), I(1)>>]}

NoOverlay == [ndim |-> 0, data |-> <<>>]

Thresholds == {None} \cup {I(t) : t \in 1 .. MaxThreshold}

\* (vmin, vmax) as passed, when at least one is
VRanges == {<<I(-MaxOv), I(MaxOv)>>, <<I(0), None>>}

\* (number of labels, number of label colours); 0 labels stands for
\* labels = None
LabelArgs ==
    {<<n, k>> \in (0..MaxLabels) \X (0..MaxLabels) :
        IF n = 0 THEN k = 0 ELSE k \in {n - 1, n}}

\* calls without overlay
PlainConfigs ==
    {[overlays |-> FALSE, sulc_maps |-> s, ctx_masks |-> c,
      labels |-> la[1], label_colors |-> la[2], label_alpha |-> Q(1, 2),
      threshold |-> None, vmin |-> None, vmax |-> None, avg_method |-> "mean"] :
        s \in BOOLEAN, c \in BOOLEAN, la \in LabelArgs}

\* calls with an overlay, thresholded or not, without labels
ThresholdConfigs ==
    {[overlays |-> TRUE, sulc_maps |-> FALSE, ctx_masks |-> c,
      labels |-> 0, label_colors |-> 0, label_alpha |-> Q(1, 2),
      threshold |-> t, vmin |-> None, vmax |-> None, avg_method |-> a] :
        c \in BOOLEAN, t \in Thresholds, a \in {"mean", "median"}}

\* calls with an overlay and labels, with vmin and with or without vmax
RangeConfigs ==
    {[overlays |-> TRUE, sulc_maps |-> FALSE, ctx_masks |-> c,
      labels |-> MaxLabels, label_colors |-> MaxLabels,
      label_alpha |-> Q(1, 2), threshold |-> None,
      vmin |-> vr[1], vmax |-> vr[2], avg_method |-> "mean"] :
        c \in BOOLEAN, vr \in VRanges}

Configs == PlainConfigs \cup ThresholdConfigs \cup RangeConfigs

\* meshes = [lh, rh], one per row of rotations_both
NumMeshes == Len(rotations_both)

Init ==
    /\ pc = "load_mesh"
    /\ cfg \in Configs
    /\ m = 0
    /\ vmin = cfg.vmin
    /\ vmax = cfg.vmax
    /\ label_colors = [i \in 1 .. cfg.label_colors |-> LabelColorSpec(i)]
    /\ vertices = <<>>
    /\ faces = <<>>
    /\ intensity = <<>>
    /\ mask = <<>>
    /\ sulc_faces = <<>>
    /\ label_mask_faces = <<>>
    /\ overlay = NoOverlay
    /\ overlay_faces = <<>>
    /\ kept_indices = {}
    /\ masked_indices = {}
    /\ face_colors = <<>>
    /\ view = 0
    /\ collection = <<>>
    /\ fig = <<>>
    /\ output_file = "absent"
    /\ files_read = {}
    /\ raised = "none"
    /\ spc = "not started"
    /\ item = 0
    /\ files = <<>>
    /\ files0 = <<>>
    /\ loaded = {}
    /\ written = {}
    /\ run = 0

\* Raise with the error swallowed: the call goes on to save the figure
RaiseSwallowed(msg) ==
    /\ pc' = "finish"
    /\ raised' = msg

\* raise ValueError(msg): the call ends, nothing else changes
Raise(msg) ==
    /\ pc' = "raised"
    /\ raised' = msg

(***************************************************************************)
(* lines 166-186: load the mesh, normalise it, compute the shading         *)
(***************************************************************************)
LoadMesh ==
    /\ pc = "load_mesh"
    /\ UNCHANGED svars
    /\ \E mesh \in MeshFiles :
        LET vs == NormalizeVertices(
                      [k \in DOMAIN mesh.vertices |->
                          [a \in 1..3 |-> I(mesh.vertices[k][a])]])
        IN  /\ vertices' = vs
            /\ faces' = mesh.faces
            /\ intensity' = Shade(RawIntensity(vs, mesh.faces))
            /\ face_colors' = [k \in DOMAIN mesh.faces |->
                                  << I(1), I(1), I(1), I(1) >>]
    /\ files_read' = files_read \cup {<<"mesh", m>>}
    /\ pc' = "read_cortex"
    /\ UNCHANGED <<cfg, m, vmin, vmax, label_colors, mask, sulc_faces,
                   label_mask_faces, overlay, overlay_faces, kept_indices,
                   masked_indices, view, collection, fig, output_file, raised>>

\* mask = zeros(n).astype(bool); mask[indices] = 1
IndexMask(indices) ==
    Eager([v \in 1 .. NumVertices |-> IF (v - 1) \in indices THEN I(1) ELSE I(0)])

(***************************************************************************)
(* lines 188-195: read the cortex label                                    *)
(***************************************************************************)
ReadCortex ==
    /\ pc = "read_cortex"
    /\ UNCHANGED svars
    /\ IF cfg.ctx_masks
       THEN /\ \E cortex \in CortexFiles : mask' = IndexMask(cortex)
            /\ files_read' = files_read \cup {<<"ctx_mask", m>>}
       ELSE /\ mask' = IndexMask({})
            /\ UNCHANGED files_read
    /\ pc' = "read_sulc"
    /\ UNCHANGED <<cfg, m, vmin, vmax, label_colors, vertices, faces,
                   intensity, sulc_faces, label_mask_faces, overlay,
                   overlay_faces, kept_indices, masked_indices, face_colors,
                   view, collection, fig, output_file, raised>>

\* a[faces] reduced over axis 1 by mean or median
FaceMean(a, fs) ==
    Eager([k \in DOMAIN fs |-> Mean3(Eager([j \in 1..3 |-> a[fs[k][j] + 1]]))])

FaceMedian(a, fs) ==
    Eager([k \in DOMAIN fs |-> Median3(Eager([j \in 1..3 |-> a[fs[k][j] + 1]]))])

\* lines 209-215: binarize the per-face sulcal map unless it is flat
SulcFaces(sulc, fs) ==
    LET sf == FaceMean(sulc, fs)
    IN  IF RMin(sf) # RMax(sf)
        THEN Eager([k \in DOMAIN sf |-> IF RLe(sf[k], I(0)) THEN I(0) ELSE I(1)])
        ELSE sf

(***************************************************************************)
(* lines 197-215: read the sulcal map                                      *)
(***************************************************************************)
ReadSulc ==
    /\ pc = "read_sulc"
    /\ UNCHANGED svars
    /\ \/ /\ ~cfg.sulc_maps
          /\ sulc_faces' = SulcFaces([v \in 1 .. Len(vertices) |-> Q(1, 2)], faces)
          /\ pc' = "read_labels"
          /\ UNCHANGED <<files_read, raised>>
       \/ /\ cfg.sulc_maps
          /\ \E sulc \in SulcFiles :
                /\ Len(sulc) = Len(vertices)
                /\ sulc_faces' = SulcFaces(sulc, faces)
          /\ files_read' = files_read \cup {<<"sulc", m>>}
          /\ pc' = "read_labels"
          /\ UNCHANGED raised
       \/ /\ cfg.sulc_maps
          /\ \E sulc \in SulcFiles : Len(sulc) # Len(vertices)
          /\ files_read' = files_read \cup {<<"sulc", m>>}
          /\ Raise("sulcal map vertex count")
          /\ UNCHANGED sulc_faces
    /\ UNCHANGED <<cfg, m, vmin, vmax, label_colors, vertices, faces,
                   intensity, mask, label_mask_faces, overlay, overlay_faces,
                   kept_indices, masked_indices, face_colors, view, collection,
                   fig, output_file>>

\* LabelColorsMismatch that only rejects surplus colours
LabelColorsSurplus(colors, labels) == Len(colors) > labels

\* line 221: len(label_colors) != len(labels)
LabelColorsMismatch(colors, labels) == Len(colors) # labels

\* label_colors = [to_rgba_array(c) for c in label_colors]; c[0, 3] = label_alpha
LabelColors(colors, alpha) ==
    [i \in DOMAIN colors |-> [colors[i] EXCEPT ![4] = alpha]]

(***************************************************************************)
(* lines 217-234: check the label colours, read the labels                 *)
(***************************************************************************)
ReadLabels ==
    /\ pc = "read_labels"
    /\ UNCHANGED svars
    /\ \/ /\ cfg.labels = 0
          /\ label_mask_faces' = <<>>
          /\ pc' = "read_overlay"
          /\ UNCHANGED <<label_colors, files_read, raised>>
       \/ /\ cfg.labels # 0
          /\ LabelColorsMismatch(label_colors, cfg.labels)
          /\ Raise("labels and label_colors length")
          /\ UNCHANGED <<label_colors, label_mask_faces, files_read>>
       \/ /\ cfg.labels # 0
          /\ ~LabelColorsMismatch(label_colors, cfg.labels)
          /\ label_colors' = LabelColors(label_colors, cfg.label_alpha)
          /\ \E L_indices \in [1 .. cfg.labels -> LabelFiles] :
                label_mask_faces' =
                    [i \in 1 .. cfg.labels |->
                        FaceMedian(IndexMask(L_indices[i]), faces)]
          /\ files_read' = files_read \cup {<<"label", m>>}
          /\ pc' = "read_overlay"
          /\ UNCHANGED raised
    /\ UNCHANGED <<cfg, m, vmin, vmax, vertices, faces, intensity, mask,
                   sulc_faces, overlay, overlay_faces, kept_indices,
                   masked_indices, face_colors, view, collection, fig,
                   output_file>>

(***************************************************************************)
(* lines 236-249: read and check the overlay                               *)
(***************************************************************************)
ReadOverlay ==
    /\ pc = "read_overlay"
    /\ UNCHANGED svars
    /\ \/ /\ ~cfg.overlays
          /\ pc' = "base"
          /\ UNCHANGED <<overlay, files_read, raised>>
       \/ /\ cfg.overlays
          /\ \E ov \in OverlayFiles :
                /\ ov.ndim = 1
                /\ Len(ov.data) = Len(vertices)
                /\ overlay' = ov
          /\ files_read' = files_read \cup {<<"overlay", m>>}
          /\ pc' = "base"
          /\ UNCHANGED raised
       \/ /\ cfg.overlays
          /\ \E ov \in OverlayFiles : ov.ndim # 1
          /\ files_read' = files_read \cup {<<"overlay", m>>}
          /\ Raise("overlay dimensions")
          /\ UNCHANGED overlay
       \/ /\ cfg.overlays
          /\ \E ov \in OverlayFiles :
                ov.ndim = 1 /\ Len(ov.data) # Len(vertices)
          /\ files_read' = files_read \cup {<<"overlay", m>>}
          /\ Raise("overlay vertex count")
          /\ UNCHANGED overlay
    /\ UNCHANGED <<cfg, m, vmin, vmax, label_colors, vertices, faces,
                   intensity, mask, sulc_faces, label_mask_faces,
                   overlay_faces, kept_indices, masked_indices, face_colors,
                   view, collection, fig, output_file>>

\* 0-based indices of the faces
FaceIds(fs) == {k - 1 : k \in DOMAIN fs}

\* np.where(a >= 0.5) and np.where(a < 0.5), as sets of 0-based indices
WhereGe(a, x) == {k - 1 : k \in {j \in DOMAIN a : RGe(a[j], x)}}

WhereLt(a, x) == {k - 1 : k \in {j \in DOMAIN a : RLt(a[j], x)}}

(***************************************************************************)
(* lines 251-263: greyscale base colours; faces within the cortex          *)
(***************************************************************************)
BaseColors ==
    /\ pc = "base"
    /\ UNCHANGED svars
    /\ face_colors' = [k \in DOMAIN faces |-> greys_narrow(sulc_faces[k])]
    /\ IF ~cfg.ctx_masks
       THEN /\ kept_indices' = FaceIds(faces)
            /\ UNCHANGED masked_indices
       ELSE LET mask_faces == FaceMedian(mask, faces)
            IN  /\ kept_indices' = WhereGe(mask_faces, Q(1, 2))
                /\ masked_indices' = WhereLt(mask_faces, Q(1, 2))
    /\ pc' = "overlay"
    /\ UNCHANGED <<cfg, m, vmin, vmax, label_colors, vertices, faces,
                   intensity, mask, sulc_faces, label_mask_faces, overlay,
                   overlay_faces, view, collection, fig, output_file,
                   files_read, raised>>

\* lines 267-270
OverlayFaces(data, fs, avg_method) ==
    IF avg_method = "mean" THEN FaceMean(data, fs) ELSE FaceMedian(data, fs)

\* lines 273-276: a bound that is still None is taken from the data
DataMin(v, of) == IF v = None THEN NanMin(of) ELSE v

DataMax(v, of) == IF v = None THEN NanMax(of) ELSE v

\* Thresholded without the intersection with the cortex faces
ThresholdedOnly(kept, of, threshold) ==
    IF threshold # None
    THEN WhereGe(Eager([k \in DOMAIN of |-> RAbs(of[k])]), threshold)
    ELSE kept

\* Thresholded keeping the faces below the threshold
ThresholdedBelow(kept, of, threshold) ==
    IF threshold # None
    THEN LET valid_indices ==
                 WhereLt(Eager([k \in DOMAIN of |-> RAbs(of[k])]), threshold)
         IN  {i \in kept : i \in valid_indices}
    ELSE kept

\* lines 279-281
Thresholded(kept, of, threshold) ==
    IF threshold # None
    THEN LET valid_indices ==
                 WhereGe(Eager([k \in DOMAIN of |-> RAbs(of[k])]), threshold)
         IN  {i \in kept : i \in valid_indices}
    ELSE kept

\* lines 284-285
Normalized(of, lo, hi) ==
    Eager([k \in DOMAIN of |-> RDiv(RSub(of[k], lo), RSub(hi, lo))])

\* face_colors[indices] = colors[indices]
Assign(buffer, indices, colors) ==
    Eager([k \in DOMAIN buffer |->
        IF (k - 1) \in indices THEN colors[k] ELSE buffer[k]])

(***************************************************************************)
(* lines 265-286: overlay stage                                            *)
(***************************************************************************)
OverlayStage ==
    /\ pc = "overlay"
    /\ UNCHANGED svars
    /\ IF cfg.overlays
       THEN LET of == OverlayFaces(overlay.data, faces, cfg.avg_method)
                lo == DataMin(vmin, of)
                hi == DataMax(vmax, of)
                kept == Thresholded(kept_indices, of, cfg.threshold)
                normed == Normalized(of, lo, hi)
            IN  /\ vmin' = lo
                /\ vmax' = hi
                /\ kept_indices' = kept
                /\ overlay_faces' = normed
                /\ face_colors' =
                       Assign(face_colors, kept,
                              Eager([k \in DOMAIN normed |-> cmap(normed[k])]))
       ELSE UNCHANGED <<vmin, vmax, kept_indices, overlay_faces, face_colors>>
    /\ pc' = "mask_override"
    /\ UNCHANGED <<cfg, m, label_colors, vertices, faces, intensity, mask,
                   sulc_faces, label_mask_faces, overlay, masked_indices,
                   view, collection, fig, output_file, files_read, raised>>

LightGrey == << Q(85, 100), Q(85, 100), Q(85, 100), I(1) >>

\* MaskOverride leaving the colours as the overlay stage left them
MaskOverrideSkipped ==
    /\ pc = "mask_override"
    /\ UNCHANGED svars
    /\ pc' = "labels"
    /\ UNCHANGED <<cfg, m, vmin, vmax, label_colors, vertices, faces,
                   intensity, mask, sulc_faces, label_mask_faces, overlay,
                   overlay_faces, kept_indices, masked_indices, face_colors,
                   view, collection, fig, output_file, files_read, raised>>

(***************************************************************************)
(* lines 288-290: non-cortical faces become light grey                     *)
(***************************************************************************)
MaskOverride ==
    /\ pc = "mask_override"
    /\ UNCHANGED svars
    /\ IF cfg.ctx_masks
       THEN face_colors' =
                Assign(face_colors, masked_indices,
                       [k \in DOMAIN face_colors |-> LightGrey])
       ELSE UNCHANGED face_colors
    /\ pc' = "labels"
    /\ UNCHANGED <<cfg, m, vmin, vmax, label_colors, vertices, faces,
                   intensity, mask, sulc_faces, label_mask_faces, overlay,
                   overlay_faces, kept_indices, masked_indices, view,
                   collection, fig, output_file, files_read, raised>>

\* Blend replacing the underlying colour by the label colour
BlendReplace(under, label_color) == label_color

\* line 296: blend (multiply) label color with underlying color
Blend(under, label_color) == ColorMul(under, label_color)

\* lines 293-296 for the labels i, i + 1, ...
RECURSIVE ApplyLabels(_, _, _, _)
ApplyLabels(buffer, lmf, colors, i) ==
    IF i > Len(lmf) THEN buffer
    ELSE LET L_idx == WhereGe(lmf[i], Q(1, 2))
         IN  ApplyLabels(
                 Assign(buffer, L_idx,
                        Eager([k \in DOMAIN buffer |->
                                  Blend(buffer[k], colors[i])])),
                 lmf, colors, i + 1)

(***************************************************************************)
(* lines 292-296: label stage                                              *)
(***************************************************************************)
LabelStage ==
    /\ pc = "labels"
    /\ UNCHANGED svars
    /\ face_colors' = ApplyLabels(face_colors, label_mask_faces, label_colors, 1)
    /\ pc' = "shade"
    /\ UNCHANGED <<cfg, m, vmin, vmax, label_colors, vertices, faces,
                   intensity, mask, sulc_faces, label_mask_faces, overlay,
                   overlay_faces, kept_indices, masked_indices, view,
                   collection, fig, output_file, files_read, raised>>

\* Lit scaling the alpha channel as well
LitAll(color, x) == << RMul(color[1], x), RMul(color[2], x), RMul(color[3], x),
                       RMul(color[4], x) >>

\* lines 298-300: R, G, B times the intensity
Lit(color, x) == << RMul(color[1], x), RMul(color[2], x), RMul(color[3], x), color[4] >>

(***************************************************************************)
(* lines 298-300: shading stage                                            *)
(***************************************************************************)
ShadeStage ==
    /\ pc = "shade"
    /\ UNCHANGED svars
    /\ face_colors' = [k \in DOMAIN face_colors |-> Lit(face_colors[k], intensity[k])]
    /\ pc' = "draw"
    /\ view' = 0
    /\ UNCHANGED <<cfg, m, vmin, vmax, label_colors, vertices, faces,
                   intensity, mask, sulc_faces, label_mask_faces, overlay,
                   overlay_faces, kept_indices, masked_indices, collection,
                   fig, output_file, files_read, raised>>

\* Subplot with one row per hemisphere
SubplotByRow(mm, i) == 2 * mm + i + 1

\* subplot index of hemisphere mm, view i in fig.add_subplot(2, 2, .)
Subplot(mm, i) == mm + 2 * i + 1

\* lines 318-321: the faces in paint order
PaintOrder(vs, fs, angle) == ArgSort(DepthKeys(vs, fs, angle))

(***************************************************************************)
(* lines 304-338: draw one view.  collection.T holds the 0-based face      *)
(* index of each triangle in paint order (the 2D coordinates are not       *)
(* modelled), collection.C the colours in that order.                      *)
(***************************************************************************)
Draw ==
    /\ pc = "draw"
    /\ UNCHANGED svars
    /\ LET rotations == rotations_both[m + 1]
           Zorder == PaintOrder(vertices, faces, rotations[view + 1])
       IN  /\ collection' = [T |-> Zorder,
                             C |-> [p \in DOMAIN Zorder |->
                                       face_colors[Zorder[p] + 1]]]
           /\ fig' = Append(fig, [tile |-> Subplot(m, view), m |-> m, view |-> view])
           /\ IF view + 1 < Len(rotations)
              THEN /\ view' = view + 1
                   /\ pc' = "draw"
              ELSE /\ view' = view
                   /\ pc' = "next_mesh"
    /\ UNCHANGED <<cfg, m, vmin, vmax, label_colors, vertices, faces,
                   intensity, mask, sulc_faces, label_mask_faces, overlay,
                   overlay_faces, kept_indices, masked_indices, face_colors,
                   output_file, files_read, raised>>

(***************************************************************************)
(* line 166: the for loop advances.  The locals of the finished iteration  *)
(* are dead (each is assigned again before it is read), so they are        *)
(* cleared here; vmin, vmax and label_colors are read again and are kept.  *)
(***************************************************************************)
NextMesh ==
    /\ pc = "next_mesh"
    /\ UNCHANGED svars
    /\ m' = m + 1
    /\ pc' = IF m + 1 < NumMeshes THEN "load_mesh" ELSE "finish"
    /\ vertices' = <<>>
    /\ faces' = <<>>
    /\ intensity' = <<>>
    /\ mask' = <<>>
    /\ sulc_faces' = <<>>
    /\ label_mask_faces' = <<>>
    /\ overlay' = NoOverlay
    /\ overlay_faces' = <<>>
    /\ kept_indices' = {}
    /\ masked_indices' = {}
    /\ face_colors' = <<>>
    /\ view' = 0
    /\ collection' = <<>>
    /\ UNCHANGED <<cfg, vmin, vmax, label_colors, fig, output_file,
                   files_read, raised>>

(***************************************************************************)
(* lines 340-389: annotations (colorbar = False), then fig.savefig         *)
(***************************************************************************)
Finish ==
    /\ pc = "finish"
    /\ UNCHANGED svars
    /\ output_file' = "written"
    /\ pc' = "done"
    /\ UNCHANGED <<cfg, m, vmin, vmax, label_colors, vertices, faces,
                   intensity, mask, sulc_faces, label_mask_faces, overlay,
                   overlay_faces, kept_indices, masked_indices, face_colors,
                   view, collection, fig, files_read, raised>>

Next ==
    \/ LoadMesh
    \/ ReadCortex
    \/ ReadSulc
    \/ ReadLabels
    \/ ReadOverlay
    \/ BaseColors
    \/ OverlayStage
    \/ MaskOverride
    \/ LabelStage
    \/ ShadeStage
    \/ Draw
    \/ NextMesh
    \/ Finish

Spec == Init /\ [][Next]_vars

(***************************************************************************)
(* Properties of plot_surf4                                                *)
(***************************************************************************)

\* the colour given for label i, its alpha replaced by label_alpha
LabelColorGiven(i) ==
    << LabelColorSpec(i)[1], LabelColorSpec(i)[2], LabelColorSpec(i)[3],
       cfg.label_alpha >>

\* the labels whose region holds face k (1-based)
LabelsOf(k) ==
    {i \in DOMAIN label_mask_faces : RGe(label_mask_faces[i][k], Q(1, 2))}

\* the colormap colour of face k times the colour of every label holding it
Tinted(k) ==
    LET tint[i \in 0 .. Len(label_mask_faces)] ==
            IF i = 0 THEN cmap(overlay_faces[k])
            ELSE IF i \in LabelsOf(k)
                 THEN ColorMul(tint[i - 1], LabelColorGiven(i))
                 ELSE tint[i - 1]
    IN  tint[Len(label_mask_faces)]

\* C1 (as stated): right after the label stage, a face of the overlay kept
\* set that lies in a label region has the colormap colour of its
\* normalised overlay value times that label's colour.
C1_OneLabelTint ==
    (pc = "shade" /\ cfg.overlays) =>
        \A k \in DOMAIN face_colors :
            (k - 1) \in kept_indices =>
                \A i \in LabelsOf(k) :
                    face_colors[k] =
                        ColorMul(cmap(overlay_faces[k]), LabelColorGiven(i))

\* C1 (amended): right after the label stage, a face of the overlay kept
\* set that lies in a label region has the colormap colour of its
\* normalised overlay value multiplied, channel by channel, by the colour
\* (alpha = label_alpha) of every label whose region holds it; the labels
\* multiply the existing colour and never replace it.
C1_LabelTint ==
    (pc = "shade" /\ cfg.overlays) =>
        \A k \in DOMAIN face_colors :
            ((k - 1) \in kept_indices /\ LabelsOf(k) # {}) =>
                face_colors[k] = Tinted(k)

\* a kept face in exactly one label region, tinted by that label
C1_Witness ==
    /\ pc = "shade"
    /\ cfg.overlays
    /\ \E k \in DOMAIN face_colors :
        /\ (k - 1) \in kept_indices
        /\ Cardinality(LabelsOf(k)) = 1
        /\ cmap(overlay_faces[k]) # BadColor
        /\ face_colors[k] # cmap(overlay_faces[k])
        /\ \A i \in LabelsOf(k) :
              face_colors[k] =
                  ColorMul(cmap(overlay_faces[k]), LabelColorGiven(i))

\* the stages of one hemisphere that follow the input checks
Checked ==
    {"base", "overlay", "mask_override", "labels", "shade", "draw", "next_mesh"}

\* C2: when an input check fails the call raises and the output file is
\* never written: a raised call has stopped without a file, a written file
\* means that no check failed in either hemisphere, and the stages after
\* the checks only run on inputs that passed them.
C2_NoOutputOnError ==
    /\ raised # "none" => (pc = "raised" /\ output_file = "absent")
    /\ pc = "raised" => raised # "none"
    /\ output_file = "written" =>
          (pc = "done" /\ raised = "none" /\ m = NumMeshes)
    /\ (pc \in Checked /\ cfg.overlays) =>
          (overlay.ndim = 1 /\ Len(overlay.data) = Len(vertices))
    /\ (pc \in Checked /\ cfg.labels # 0) => Len(label_colors) = cfg.labels

\* the overlay of the second hemisphere fails its check after the first
\* hemisphere was drawn
C2_Witness ==
    /\ pc = "raised"
    /\ raised = "overlay vertex count"
    /\ m = 1
    /\ Len(fig) = Len(rotations_both[1])
    /\ output_file = "absent"

\* C3 (as stated): without vmin and vmax, each hemisphere's overlay is
\* normalised between the nan-aware minimum and maximum of that
\* hemisphere's per-face overlay values, left and right alike.
C3_RangeFromOwnData ==
    (pc = "mask_override" /\ cfg.overlays
        /\ cfg.vmin = None /\ cfg.vmax = None) =>
        LET of == OverlayFaces(overlay.data, faces, cfg.avg_method)
        IN  /\ vmin = NanMin(of)
            /\ vmax = NanMax(of)
            /\ overlay_faces = Normalized(of, NanMin(of), NanMax(of))

\* the per-face value of vertex array a on face k (1-based)
FaceValue(a, k, avg_method) ==
    LET t == << a[faces[k][1] + 1], a[faces[k][2] + 1], a[faces[k][3] + 1] >>
    IN  IF avg_method = "mean" THEN Mean3(t) ELSE Median3(t)

\* face k (1-based) lies within the cortex mask
InCortex(k) == cfg.ctx_masks => RGe(FaceValue(mask, k, "median"), Q(1, 2))

\* face k (1-based) passes the threshold t on its raw overlay value
PassesThreshold(k, t) ==
    t # None => RGe(RAbs(FaceValue(overlay.data, k, cfg.avg_method)), t)

\* C4: right after the overlay stage, the faces recoloured by the colormap
\* are the faces kept by the cortex mask (all faces without a mask) that
\* are also kept by the threshold (all faces without a threshold); every
\* other face keeps its greyscale colour.
C4_RecolouredSet ==
    (pc = "mask_override" /\ cfg.overlays) =>
        /\ kept_indices =
              {k - 1 : k \in {j \in DOMAIN faces :
                                 InCortex(j) /\ PassesThreshold(j, cfg.threshold)}}
        /\ \A k \in DOMAIN faces :
              face_colors[k] =
                  IF InCortex(k) /\ PassesThreshold(k, cfg.threshold)
                  THEN cmap(overlay_faces[k])
                  ELSE greys_narrow(sulc_faces[k])

\* a mask and a threshold together: one face is recoloured, another passes
\* the threshold but lies outside the cortex
C4_Witness ==
    /\ pc = "mask_override"
    /\ cfg.overlays /\ cfg.ctx_masks /\ cfg.threshold # None
    /\ kept_indices # {}
    /\ \E k \in DOMAIN faces :
          ~InCortex(k) /\ PassesThreshold(k, cfg.threshold)
    /\ \E k \in DOMAIN faces :
          (k - 1) \in kept_indices /\ face_colors[k] = cmap(overlay_faces[k])

\* the faces the cortex mask keeps, before any threshold
CortexKept ==
    IF cfg.ctx_masks THEN FaceIds(faces) \ masked_indices ELSE FaceIds(faces)

\* C5: raising the threshold never adds a face to the kept set: on the same
\* inputs the faces kept at a higher threshold are among those kept at a
\* lower one (and among those kept without a threshold), and the kept set
\* of the call is the one of its threshold.
C5_ThresholdMonotone ==
    (pc = "mask_override" /\ cfg.overlays) =>
        LET of == OverlayFaces(overlay.data, faces, cfg.avg_method)
            levels == {I(t) : t \in 0 .. MaxThreshold + 1}
        IN  /\ kept_indices = Thresholded(CortexKept, of, cfg.threshold)
            /\ \A lo \in levels, hi \in levels :
                  RLe(lo, hi) =>
                      Thresholded(CortexKept, of, hi)
                          \subseteq Thresholded(CortexKept, of, lo)
            /\ \A t \in levels :
                  Thresholded(CortexKept, of, t)
                      \subseteq Thresholded(CortexKept, of, None)

\* the threshold of the call dropped a face and kept another, and a higher
\* one would drop that too
C5_Witness ==
    /\ pc = "mask_override"
    /\ cfg.overlays
    /\ cfg.threshold # None
    /\ kept_indices # {}
    /\ kept_indices # CortexKept
    /\ Thresholded(CortexKept,
                   OverlayFaces(overlay.data, faces, cfg.avg_method),
                   I(MaxThreshold + 1)) = {}

\* the rotation of the view drawn last
LastAngle ==
    rotations_both[m + 1][IF pc = "draw" THEN view ELSE view + 1]

\* the distance of vertex v from the camera plane: the clip-space w
Distance(v, angle) == Clip(MVP(angle), v, 4)

\* the distances of the three vertices of face k (1-based), ascending
FaceDistances(k, angle) ==
    RSort(Eager([j \in 1 .. 3 |-> Distance(vertices[faces[k][j] + 1], angle)]))

\* distance list a lies farther from the camera than b: vertex by vertex,
\* in order of distance, it is at least as far, and farther for one of them
Farther(a, b) ==
    /\ \A j \in 1 .. 3 : RGe(a[j], b[j])
    /\ \E j \in 1 .. 3 : RGt(a[j], b[j])

\* the triangles T (0-based face indices in paint order) with colours C
\* are all the faces, by ascending key Z, farther ones first
BackToFront(T, C, Z, D) ==
    /\ Len(T) = Len(faces)
    /\ {T[p] : p \in DOMAIN T} = FaceIds(faces)
    /\ \A p \in DOMAIN T : C[p] = face_colors[T[p] + 1]
    /\ \A p \in DOMAIN T, q \in DOMAIN T :
          p < q =>
              /\ RLe(Z[T[p] + 1], Z[T[q] + 1])
              /\ Z[T[p] + 1] # Z[T[q] + 1] => ~Farther(D[T[q] + 1], D[T[p] + 1])

\* C6: the triangles of a view are handed to the renderer back to front:
\* every face once, by ascending depth key, so that of two triangles whose
\* averaged depth keys differ the one farther from the camera comes
\* earlier, each with its own colour.
C6_BackToFront ==
    collection # <<>> =>
        Let(<< DepthKeys(vertices, faces, LastAngle),
               Eager([k \in DOMAIN faces |-> FaceDistances(k, LastAngle)]) >>,
            LAMBDA ZD : BackToFront(collection.T, collection.C, ZD[1], ZD[2]))

\* a farther face with the larger index is painted before a nearer one
C6_Witness ==
    /\ collection # <<>>
    /\ \E p \in DOMAIN collection.T, q \in DOMAIN collection.T :
          /\ p < q
          /\ collection.T[p] > collection.T[q]
          /\ Farther(FaceDistances(collection.T[p] + 1, LastAngle),
                     FaceDistances(collection.T[q] + 1, LastAngle))

\* the views of one hemisphere
NumViews == Len(rotations_both[1])

\* C7: a finished figure holds exactly four collections, one per tile of
\* the 2 x 2 grid; the column of a tile is the hemisphere (left = first
\* mesh) and its row the view (lateral first, seen from the outer side of
\* the hemisphere); they are drawn hemisphere by hemisphere, view by view.
C7_FourTiles ==
    /\ \A j \in DOMAIN fig :
          /\ fig[j].m = (j - 1) \div NumViews
          /\ fig[j].view = (j - 1) % NumViews
          /\ (fig[j].tile - 1) % NumMeshes = fig[j].m
          /\ (fig[j].tile - 1) \div NumMeshes = fig[j].view
    /\ pc = "done" =>
          /\ Len(fig) = 4
          /\ {fig[j].tile : j \in DOMAIN fig} = 1 .. 4
    /\ pc = "draw" => Len(fig) = NumViews * m + view
    /\ LET left == << Q(-1, 2), I(0), I(0) >>
           right == << Q(1, 2), I(0), I(0) >>
       IN  /\ RLt(Distance(left, rotations_both[1][1]),
                  Distance(right, rotations_both[1][1]))
           /\ RLt(Distance(right, rotations_both[2][1]),
                  Distance(left, rotations_both[2][1]))

\* the finished figure: the third collection, the lateral view of the
\* right hemisphere, sits in the top right tile
C7_Witness ==
    /\ pc = "done"
    /\ output_file = "written"
    /\ Len(fig) = 4
    /\ fig[3] = [tile |-> 2, m |-> 1, view |-> 0]

\* C8: when the numbers of labels and of label colours differ, the call
\* fails before any label file is read, any face is coloured or any tile
\* is drawn: it never gets past the length test of the first hemisphere.
C8_LabelColorsChecked ==
    (cfg.labels # 0 /\ cfg.label_colors # cfg.labels) =>
        /\ \A mm \in 0 .. NumMeshes : <<"label", mm>> \notin files_read
        /\ \A k \in DOMAIN face_colors :
              face_colors[k] = << I(1), I(1), I(1), I(1) >>
        /\ fig = <<>>
        /\ collection = <<>>
        /\ output_file = "absent"
        /\ m = 0
        /\ pc \in {"load_mesh", "read_cortex", "read_sulc", "read_labels",
                   "raised"}
        /\ pc = "raised" =>
              raised \in {"sulcal map vertex count",
                          "labels and label_colors length"}

\* the call has failed on the label colours, after reading the mesh
C8_Witness ==
    /\ pc = "raised"
    /\ raised = "labels and label_colors length"
    /\ cfg.label_colors < cfg.labels
    /\ <<"mesh", 0>> \in files_read

\* C9: right after the mask-override stage every face outside the cortex
\* mask is exactly (0.85, 0.85, 0.85, 1), whatever its overlay value; the
\* overlay stage has left it out of the kept set.
C9_MaskedLightGrey ==
    (cfg.ctx_masks /\ pc \in {"mask_override", "labels"}) =>
        \A k \in DOMAIN faces :
            ~InCortex(k) =>
                /\ (k - 1) \notin kept_indices
                /\ pc = "labels" =>
                      face_colors[k] =
                          << Q(85, 100), Q(85, 100), Q(85, 100), I(1) >>

\* with an overlay: a face outside the cortex with a colourable overlay
\* value is light grey, next to a recoloured face
C9_Witness ==
    /\ pc = "labels"
    /\ cfg.ctx_masks /\ cfg.overlays
    /\ \E k \in DOMAIN faces :
          /\ ~InCortex(k)
          /\ cmap(overlay_faces[k]) # BadColor
          /\ face_colors[k] = << Q(85, 100), Q(85, 100), Q(85, 100), I(1) >>
    /\ \E k \in DOMAIN faces :
          InCortex(k) /\ face_colors[k] = cmap(overlay_faces[k])

\* a call without overlay, labels and mask
Plain == ~cfg.overlays /\ cfg.labels = 0 /\ ~cfg.ctx_masks

\* C10: without overlay, labels and mask the overlay, mask-override and
\* label stages change nothing, and the final colour of each face is the
\* narrowed greyscale colour of its sulcal value with R, G and B times the
\* face's shading intensity and the alpha unchanged.
C10_PlainColours ==
    Plain =>
        \A k \in DOMAIN face_colors :
            LET g == greys_narrow(sulc_faces[k])
            IN  /\ pc \in {"overlay", "mask_override", "labels", "shade"} =>
                      face_colors[k] = g
                /\ pc \in {"draw", "next_mesh"} =>
                      face_colors[k] = << RMul(g[1], intensity[k]),
                                          RMul(g[2], intensity[k]),
                                          RMul(g[3], intensity[k]),
                                          g[4] >>

\* a shaded face of a plain call with a sulcal map: darker than its grey
C10_Witness ==
    /\ Plain
    /\ cfg.sulc_maps
    /\ pc = "draw"
    /\ view = 0
    /\ \E k \in DOMAIN face_colors :
          /\ IsFinite(intensity[k])
          /\ RLt(I(0), intensity[k]) /\ RLt(intensity[k], I(1))
          /\ RLt(face_colors[k][1], greys_narrow(sulc_faces[k])[1])
          /\ face_colors[k][4] = I(1)

\* the final face colours of the hemisphere in hand when its overlay stage
\* is entered with the bounds lo and hi, from the inputs it has read
HemisphereColours(lo, hi) ==
    LET base == Eager([k \in DOMAIN faces |-> greys_narrow(sulc_faces[k])])
        of == OverlayFaces(overlay.data, faces, cfg.avg_method)
        normed == Normalized(of, DataMin(lo, of), DataMax(hi, of))
        recoloured ==
            IF cfg.overlays
            THEN Assign(base, Thresholded(CortexKept, of, cfg.threshold),
                        Eager([k \in DOMAIN normed |-> cmap(normed[k])]))
            ELSE base
        overridden ==
            IF cfg.ctx_masks
            THEN Assign(recoloured, masked_indices,
                        [k \in DOMAIN recoloured |-> LightGrey])
            ELSE recoloured
        labelled == ApplyLabels(overridden, label_mask_faces, label_colors, 1)
    IN  Eager([k \in DOMAIN labelled |-> Lit(labelled[k], intensity[k])])

\* the bounds (vmin, vmax) the first hemisphere can leave behind, over all
\* its meshes and overlays
LeftRanges ==
    IF cfg.overlays
    THEN {<< DataMin(cfg.vmin, OverlayFaces(ov.data, mesh.faces, cfg.avg_method)),
             DataMax(cfg.vmax, OverlayFaces(ov.data, mesh.faces, cfg.avg_method)) >> :
             mesh \in MeshFiles,
             ov \in {o \in OverlayFiles :
                        o.ndim = 1 /\ Len(o.data) = NumVertices}}
    ELSE {<< cfg.vmin, cfg.vmax >>}

\* C11 (as stated): nothing written while the first hemisphere is
\* processed is read while the second is: for the configuration of the call
\* and the right hemisphere's inputs, the right hemisphere's final face
\* colours are the same whatever mesh and overlay the left hemisphere had.
C11_RightIndependentOfLeft ==
    (m = 1 /\ pc = "draw" /\ view = 0) =>
        \A lr \in LeftRanges :
            \A k \in DOMAIN face_colors :
                HemisphereColours(lr[1], lr[2])[k] = face_colors[k]

\* C12 (as stated): right after the overlay stage of either hemisphere the
\* divisor vmax - vmin is not zero, and the value handed to the colormap
\* for every kept face is a defined number in [0, 1], for bounds taken
\* from the data as well as for bounds that were passed.
C12_NormalizedInUnitRange ==
    (pc = "mask_override" /\ cfg.overlays) =>
        /\ RSub(vmax, vmin) # I(0)
        /\ \A k \in DOMAIN overlay_faces :
              (k - 1) \in kept_indices =>
                  /\ IsFinite(overlay_faces[k])
                  /\ RLe(I(0), overlay_faces[k])
                  /\ RLe(overlay_faces[k], I(1))

\* the hemisphere's mesh has just been loaded and shaded
MeshLoaded == pc = "read_cortex"

\* the raw light intensity of every face of the mesh in hand
RawOfMesh == RawIntensity(vertices, faces)

C14_ShadingDefined ==
    MeshLoaded =>
        /\ Let(RawOfMesh,
               LAMBDA raw : RSub(Percentile(raw, 80), RMin(raw)) # I(0))
        /\ \A k \in DOMAIN intensity :
              /\ IsFinite(intensity[k])
              /\ RLe(Q(3, 10), intensity[k])
              /\ RLe(intensity[k], I(1))

(***************************************************************************)
(* hippunfold_to_slicer.py, lines 144-167: the conversion loops.  An       *)
(* output file is "absent", "old" (it was there before the script was      *)
(* first started) or "new" (written by the script).                        *)
(***************************************************************************)
\* os.listdir returns MaxSubjects subject directories
MaxSubjects == 2
\* when the script is first started at most MaxPresent of the outputs
\* exist, or at most MaxPresent of them are missing
MaxPresent == 2

\* for isurf in ('inner', 'midthickness', 'outer')
Surfs == << "inner", "midthickness", "outer" >>

\* for ihemi in ('L', 'R')
Hemis == << "L", "R" >>

\* the conversions of one subject, in loop order: the surfaces (isurf
\* outside, ihemi inside), then the segmentations
SubjectItems(isub) ==
    Eager([k \in 1 .. Len(Surfs) * Len(Hemis) |->
              [isub |-> isub, kind |-> "surf",
               name |-> Surfs[((k - 1) \div Len(Hemis)) + 1],
               ihemi |-> Hemis[((k - 1) % Len(Hemis)) + 1]]])
    \o Eager([k \in 1 .. Len(Hemis) |->
                 [isub |-> isub, kind |-> "seg", name |-> "dseg",
                  ihemi |-> Hemis[k]]])

\* all conversions, subject by subject
Items ==
    LET all[n \in 0 .. MaxSubjects] ==
            IF n = 0 THEN <<>> ELSE all[n - 1] \o SubjectItems(n)
    IN  all[MaxSubjects]

\* gii_file_fname, seg_file_fname
InputPath(it) ==
    << it.isub, it.name, it.ihemi,
       IF it.kind = "surf" THEN "surf.gii" ELSE "nii.gz" >>

\* gii_out_fname, seg_out_fname
OutputPath(it) ==
    << it.isub, it.name, it.ihemi,
       IF it.kind = "surf" THEN "ply" ELSE "seg.nrrd" >>

Outputs == {OutputPath(Items[i]) : i \in DOMAIN Items}

\* the sets of at most n outputs
SmallSets ==
    LET small[n \in 0 .. MaxPresent] ==
            IF n = 0 THEN {{}}
            ELSE small[n - 1] \cup
                 {P \cup {o} : P \in small[n - 1], o \in Outputs}
    IN  small[MaxPresent]

\* the directories the script can be first started on
InitialDirs ==
    {[o \in Outputs |-> IF o \in P THEN "old" ELSE "absent"] :
        P \in SmallSets \cup {Outputs \ A : A \in SmallSets}}

\* os.path.exists that takes every file for missing
ExistsNever(dir, path) == FALSE

\* os.path.exists(path)
Exists(dir, path) == dir[path] # "absent"

SlicerInit ==
    /\ spc = "loop"
    /\ item = 1
    /\ run = 1
    /\ files \in InitialDirs
    /\ files0 = files
    /\ loaded = {}
    /\ written = {}
    /\ pc = "not called"
    /\ cfg = <<>>
    /\ m = 0
    /\ vmin = None
    /\ vmax = None
    /\ label_colors = <<>>
    /\ vertices = <<>>
    /\ faces = <<>>
    /\ intensity = <<>>
    /\ mask = <<>>
    /\ sulc_faces = <<>>
    /\ label_mask_faces = <<>>
    /\ overlay = NoOverlay
    /\ overlay_faces = <<>>
    /\ kept_indices = {}
    /\ masked_indices = {}
    /\ face_colors = <<>>
    /\ view = 0
    /\ collection = <<>>
    /\ fig = <<>>
    /\ output_file = "absent"
    /\ files_read = {}
    /\ raised = "none"

\* one conversion: the body of the innermost loop for the item reached
Convert(it) ==
    IF Exists(files, OutputPath(it))
    THEN /\ item' = item + 1
         /\ spc' = IF item + 1 > Len(Items) THEN "done" ELSE "loop"
         /\ UNCHANGED <<files, loaded, written>>
    ELSE /\ loaded' = loaded \cup {InputPath(it)}
         /\ \/ /\ files' = [files EXCEPT ![OutputPath(it)] = "new"]
               /\ written' = written \cup {OutputPath(it)}
               /\ item' = item + 1
               /\ spc' = IF item + 1 > Len(Items) THEN "done" ELSE "loop"
            \/ /\ spc' = "raised"
               /\ UNCHANGED <<files, written, item>>

(***************************************************************************)
(* lines 146-155: one surface; nb.load raises when the input is missing    *)
(***************************************************************************)
ConvertSurface ==
    /\ spc = "loop"
    /\ Items[item].kind = "surf"
    /\ Convert(Items[item])
    /\ UNCHANGED <<files0, run>>
    /\ UNCHANGED pvars

(***************************************************************************)
(* lines 158-167: one segmentation                                         *)
(***************************************************************************)
ConvertSegmentation ==
    /\ spc = "loop"
    /\ Items[item].kind = "seg"
    /\ Convert(Items[item])
    /\ UNCHANGED <<files0, run>>
    /\ UNCHANGED pvars

(***************************************************************************)
(* the script, having run to its end, is started once more on the          *)
(* directory it left                                                       *)
(***************************************************************************)
Restart ==
    /\ spc = "done"
    /\ run = 1
    /\ run' = run + 1
    /\ spc' = "loop"
    /\ item' = 1
    /\ files0' = files
    /\ loaded' = {}
    /\ written' = {}
    /\ UNCHANGED files
    /\ UNCHANGED pvars

SlicerNext ==
    \/ ConvertSurface
    \/ ConvertSegmentation
    \/ Restart

SlicerSpec == SlicerInit /\ [][SlicerNext]_vars

\* C15: the conversion loop writes an output only when no file exists at
\* its path: an output that existed when the script was started is never
\* overwritten or modified and its input is not loaded, every output
\* written was missing and its input was loaded, and a run over a
\* directory whose outputs are all present loads and writes nothing.
C15_WritesOnlyMissing ==
    /\ \A i \in DOMAIN Items :
          LET out == OutputPath(Items[i])
          IN  /\ files0[out] # "absent" =>
                     /\ files[out] = files0[out]
                     /\ out \notin written
                     /\ InputPath(Items[i]) \notin loaded
              /\ out \in written =>
                     /\ files0[out] = "absent"
                     /\ files[out] = "new"
                     /\ InputPath(Items[i]) \in loaded
              /\ files[out] # files0[out] => out \in written
    /\ (\A o \in Outputs : files0[o] # "absent") =>
          (written = {} /\ loaded = {} /\ files = files0)

\* the second run has ended on a directory that the first run completed
\* next to older files: nothing loaded, nothing written
C15_Witness ==
    /\ run = 2
    /\ spc = "done"
    /\ \E o \in Outputs : files[o] = "old"
    /\ \E o \in Outputs : files[o] = "new"
    /\ \A o \in Outputs : files0[o] # "absent"
    /\ written = {}
    /\ loaded = {}

====
